---- MODULE Spec2Model ----
(***************************************************************************)
(* In-memory, IP-keyed rate limiter of the portfolio chatbot API           *)
(* (utils/rateLimiter.js): the requestCounts map, checkRateLimit,          *)
(* isBlocked and the periodic cleanupOldEntries; and the POST /api/chat     *)
(* handler (api/chat.js) that calls it, with its knowledge base, CV and     *)
(* Gemini steps.                                                            *)
(*                                                                         *)
(* Time.  The source works in epoch milliseconds; the model counts epoch   *)
(* seconds, so every duration of the source appears divided by 1000.  The  *)
(* clock does not visit every second: a specification explores the        *)
(* instants listed in scope.instants, which lie right after the module is  *)
(* loaded and right after each duration of the source has elapsed, so that *)
(* every window and block can open and close.  The limits read from the    *)
(* environment (requests per minute, per hour, block duration) are chosen  *)
(* in Init from small sets.                                                *)
(***************************************************************************)
EXTENDS Integers, Sequences, FiniteSets, TLC

\* ------------------------------------------------------------------ bounds
StartTime == 5000        \* Date.now() / 1000 at module load
MaxOffset == 2           \* seconds explored after each base instant
MaxOffsetTwo == 1        \* the same, in the two-client specification

IPs == {"A", "B"}

\* --------------------------------------------------- constants of the source
CLEANUP_INTERVAL == 60            \* 60000 ms
MAX_ENTRY_AGE == 300              \* 300000 ms
MINUTE_WINDOW == 60               \* 60000 ms
HOUR_WINDOW == 3600               \* 3600000 ms
DEFAULT_BLOCK_DURATION == 600     \* '600000' ms
DEFAULT_PER_HOUR == 60            \* '60'

\* values the environment may supply (RATE_LIMIT_PER_MINUTE,
\* RATE_LIMIT_PER_HOUR, RATE_LIMIT_BLOCK_DURATION)
PerMinuteChoices == {1, 2}
PerHourChoices == {2, 3}
BlockDurationChoices == {1, DEFAULT_BLOCK_DURATION}

RATE_LIMIT_CONFIG(perMinute, perHour, blockDuration) ==
  [ MAX_REQUESTS_PER_MINUTE |-> perMinute,
    MAX_REQUESTS_PER_HOUR   |-> perHour,
    MINUTE_WINDOW           |-> MINUTE_WINDOW,
    HOUR_WINDOW             |-> HOUR_WINDOW,
    BLOCK_DURATION          |-> blockDuration,
    MAX_ENTRY_AGE           |-> MAX_ENTRY_AGE,
    CLEANUP_INTERVAL        |-> CLEANUP_INTERVAL ]

VARIABLES
  cfg,            \* RATE_LIMIT_CONFIG and the cleanup constants, fixed at load
  scope,          \* what a specification explores: clients, clock steps, histories kept
  now,            \* Date.now()
  requestCounts,  \* the Map ip -> {minuteTimestamps, hourTimestamps, blockedUntil}
  nextCleanup,    \* time at which the setInterval callback is next due
  last,           \* ghost: the most recent checkRateLimit call and its result
  streak,         \* ghost: per ip, Checks made since its record was created, no Sweep since
  violation,      \* ghost: per ip, the most recent threshold violation
  prevAllowed,    \* ghost: per ip, the previous Allowed result
  grants,         \* ghost: per ip, times of the Allowed decisions
  alone,          \* ghost: per ip, its record had no other identity ever called Check
  env,            \* process.env as api/chat.js reads it (GEMINI_*)
  requests        \* the invocations of the chat handler: position, request, response

vars == << cfg, scope, now, requestCounts, nextCleanup, last, streak, violation,
           prevAllowed, grants, alone, env, requests >>

\* ------------------------------------------------------------ JS helpers
NULL == 0        \* null / undefined: falsy, like the number 0

Min2(a, b) == IF a <= b THEN a ELSE b

\* arr[0] || dflt
FirstOr(arr, dflt) == IF Len(arr) > 0 /\ arr[1] # 0 THEN arr[1] ELSE dflt

\* faulty variant: a timestamp exactly one window old is kept (<= for <)
FilterWindow_Inclusive(arr, t, window) == SelectSeq(arr, LAMBDA ts : t - ts <= window)

\* arr.filter(timestamp => t - timestamp < window)
FilterWindow(arr, t, window) == SelectSeq(arr, LAMBDA ts : t - ts < window)

NewEntry == [ minuteTimestamps |-> << >>, hourTimestamps |-> << >>,
              blockedUntil |-> NULL ]

\* -------------------------------------------------------------- isBlocked
\* faulty variant: the block still holds at the instant it ends (<= for <)
isBlocked_Inclusive(data, t) ==
  IF data.blockedUntil = NULL
    THEN [ blocked |-> FALSE, data |-> data ]
    ELSE IF t <= data.blockedUntil
      THEN [ blocked |-> TRUE, data |-> data ]
      ELSE [ blocked |-> FALSE, data |-> [data EXCEPT !.blockedUntil = NULL] ]

\* faulty variant: a block never ends
isBlocked_NeverExpires(data, t) ==
  [ blocked |-> data.blockedUntil # NULL, data |-> data ]

\* faulty variant: a block that is over is left in the record
isBlocked_KeepsExpired(data, t) ==
  [ blocked |-> data.blockedUntil # NULL /\ t < data.blockedUntil, data |-> data ]

\* returns the answer and the record as isBlocked leaves it
isBlocked(data, t) ==
  IF data.blockedUntil = NULL
    THEN [ blocked |-> FALSE, data |-> data ]
    ELSE IF t < data.blockedUntil
      THEN [ blocked |-> TRUE, data |-> data ]
      ELSE [ blocked |-> FALSE, data |-> [data EXCEPT !.blockedUntil = NULL] ]

\* ---------------------------------------------------------- checkRateLimit
\* faulty variant: the limit is hit only above the maximum (> for >=)
minuteLimitHit_Above(data, c) ==
  Len(data.minuteTimestamps) > c.MAX_REQUESTS_PER_MINUTE

minuteLimitHit(data, c) ==
  Len(data.minuteTimestamps) >= c.MAX_REQUESTS_PER_MINUTE

\* faulty variant: the hour limit is hit only above the maximum (> for >=)
hourLimitHit_Above(data, c) ==
  Len(data.hourTimestamps) > c.MAX_REQUESTS_PER_HOUR

hourLimitHit(data, c) ==
  Len(data.hourTimestamps) >= c.MAX_REQUESTS_PER_HOUR

\* faulty variant: only the minute window is filtered
pruneTimestamps_MinuteOnly(data, t, c) ==
  [ data EXCEPT !.minuteTimestamps = FilterWindow(@, t, c.MINUTE_WINDOW) ]

pruneTimestamps(data, t, c) ==
  [ data EXCEPT
      !.minuteTimestamps = FilterWindow(@, t, c.MINUTE_WINDOW),
      !.hourTimestamps   = FilterWindow(@, t, c.HOUR_WINDOW) ]

\* faulty variant: the block is counted from the oldest hit of the minute window
blockEntry_FromOldestHit(data, t, c) ==
  [ data EXCEPT !.blockedUntil = FirstOr(data.minuteTimestamps, t) + c.BLOCK_DURATION ]

\* faulty variant: the request that hit the limit is recorded as well
blockEntry_CountsHit(data, t, c) ==
  [ data EXCEPT !.blockedUntil = t + c.BLOCK_DURATION,
                !.minuteTimestamps = Append(@, t),
                !.hourTimestamps   = Append(@, t) ]

blockEntry(data, t, c) == [ data EXCEPT !.blockedUntil = t + c.BLOCK_DURATION ]

\* faulty variant: the request is recorded in the minute window only
pushTimestamps_MinuteOnly(data, t) ==
  [ data EXCEPT !.minuteTimestamps = Append(@, t) ]

\* faulty variant: the request is put in front of the older ones
pushTimestamps_Unshift(data, t) ==
  [ data EXCEPT !.minuteTimestamps = << t >> \o @,
                !.hourTimestamps   = << t >> \o @ ]

pushTimestamps(data, t) ==
  [ data EXCEPT !.minuteTimestamps = Append(@, t),
                !.hourTimestamps   = Append(@, t) ]

\* faulty variant: remaining is computed as if the request were not yet recorded
allowedResult_BeforePush(data, t, c) ==
  [ allowed   |-> TRUE,
    remaining |-> Min2(c.MAX_REQUESTS_PER_MINUTE - Len(data.minuteTimestamps) + 1,
                       c.MAX_REQUESTS_PER_HOUR - Len(data.hourTimestamps) + 1),
    resetAt   |-> Min2(FirstOr(data.minuteTimestamps, t) + c.MINUTE_WINDOW,
                       FirstOr(data.hourTimestamps, t) + c.HOUR_WINDOW),
    message   |-> "null" ]

\* faulty variant: resetAt is the oldest timestamp itself, no window added
allowedResult_ResetAtOldest(data, t, c) ==
  [ allowed   |-> TRUE,
    remaining |-> Min2(c.MAX_REQUESTS_PER_MINUTE - Len(data.minuteTimestamps),
                       c.MAX_REQUESTS_PER_HOUR - Len(data.hourTimestamps)),
    resetAt   |-> Min2(FirstOr(data.minuteTimestamps, t), FirstOr(data.hourTimestamps, t)),
    message   |-> "null" ]

allowedResult(data, t, c) ==
  [ allowed   |-> TRUE,
    remaining |-> Min2(c.MAX_REQUESTS_PER_MINUTE - Len(data.minuteTimestamps),
                       c.MAX_REQUESTS_PER_HOUR - Len(data.hourTimestamps)),
    resetAt   |-> Min2(FirstOr(data.minuteTimestamps, t) + c.MINUTE_WINDOW,
                       FirstOr(data.hourTimestamps, t) + c.HOUR_WINDOW),
    message   |-> "null" ]

deniedResult(resetAt, message) ==
  [ allowed |-> FALSE, remaining |-> 0, resetAt |-> resetAt, message |-> message ]

\* faulty variant: the timestamps are filtered before the block is looked at
checkEntry_PrunesBlocked(data0, t, c) ==
  LET b == isBlocked(pruneTimestamps(data0, t, c), t) IN
  IF b.blocked
    THEN [ data   |-> b.data,
           result |-> deniedResult(b.data.blockedUntil, "AlreadyBlocked") ]
    ELSE
      IF minuteLimitHit(b.data, c)
        THEN [ data   |-> blockEntry(b.data, t, c),
               result |-> deniedResult(t + c.BLOCK_DURATION, "ShortWindowExceeded") ]
      ELSE IF hourLimitHit(b.data, c)
        THEN [ data   |-> blockEntry(b.data, t, c),
               result |-> deniedResult(t + c.BLOCK_DURATION, "LongWindowExceeded") ]
      ELSE
        LET pushed == pushTimestamps(b.data, t) IN
        [ data |-> pushed, result |-> allowedResult(pushed, t, c) ]

\* faulty variant: the hour limit is tested before the minute limit
checkEntry_HourFirst(data0, t, c) ==
  LET b == isBlocked(data0, t) IN
  IF b.blocked
    THEN [ data   |-> b.data,
           result |-> deniedResult(b.data.blockedUntil, "AlreadyBlocked") ]
    ELSE
      LET pruned == pruneTimestamps(b.data, t, c) IN
      IF hourLimitHit(pruned, c)
        THEN [ data   |-> blockEntry(pruned, t, c),
               result |-> deniedResult(t + c.BLOCK_DURATION, "LongWindowExceeded") ]
      ELSE IF minuteLimitHit(pruned, c)
        THEN [ data   |-> blockEntry(pruned, t, c),
               result |-> deniedResult(t + c.BLOCK_DURATION, "ShortWindowExceeded") ]
      ELSE
        LET pushed == pushTimestamps(pruned, t) IN
        [ data |-> pushed, result |-> allowedResult(pushed, t, c) ]

\* the whole function on one record: the record it leaves and what it returns
checkEntry(data0, t, c) ==
  LET b == isBlocked(data0, t) IN
  IF b.blocked
    THEN [ data   |-> b.data,
           result |-> deniedResult(b.data.blockedUntil, "AlreadyBlocked") ]
    ELSE
      LET pruned == pruneTimestamps(b.data, t, c) IN
      IF minuteLimitHit(pruned, c)
        THEN [ data   |-> blockEntry(pruned, t, c),
               result |-> deniedResult(t + c.BLOCK_DURATION, "ShortWindowExceeded") ]
      ELSE IF hourLimitHit(pruned, c)
        THEN [ data   |-> blockEntry(pruned, t, c),
               result |-> deniedResult(t + c.BLOCK_DURATION, "LongWindowExceeded") ]
      ELSE
        LET pushed == pushTimestamps(pruned, t) IN
        [ data |-> pushed, result |-> allowedResult(pushed, t, c) ]

\* requestCounts.get(ip), initialised when missing
getOrCreate(store, ip) == IF ip \in DOMAIN store THEN store[ip] ELSE NewEntry

\* faulty variant: blockedUntil is shared by every record of the store
storeAfterCheck_SharedBlock(store, ip, t, c) ==
  LET r == checkEntry(getOrCreate(store, ip), t, c) IN
  [ j \in (DOMAIN store) \cup {ip} |->
      IF j = ip THEN r.data
      ELSE [ store[j] EXCEPT !.blockedUntil = r.data.blockedUntil ] ]

\* faulty variant: the record with the new timestamp is not written back to a
\* store that already holds a record of ip
storeAfterCheck_LostAppend(store, ip, t, c) ==
  LET r == checkEntry(getOrCreate(store, ip), t, c) IN
  IF r.result.allowed /\ ip \in DOMAIN store
    THEN store
    ELSE [ j \in (DOMAIN store) \cup {ip} |-> IF j = ip THEN r.data ELSE store[j] ]

\* the store after checkRateLimit(ip)
storeAfterCheck(store, ip, t, c) ==
  LET r == checkEntry(getOrCreate(store, ip), t, c) IN
  [ j \in (DOMAIN store) \cup {ip} |-> IF j = ip THEN r.data ELSE store[j] ]

\* ------------------------------------------------------- cleanupOldEntries
oldestTimestamp(data, t) ==
  Min2(Min2(FirstOr(data.minuteTimestamps, t), FirstOr(data.hourTimestamps, t)),
       IF data.blockedUntil # NULL THEN data.blockedUntil ELSE 0)

\* faulty variant: a record that holds a blockedUntil is never stale
isStale_KeepsBlocked(data, t, c) ==
  data.blockedUntil = NULL /\ t - oldestTimestamp(data, t) > c.MAX_ENTRY_AGE

isStale(data, t, c) == t - oldestTimestamp(data, t) > c.MAX_ENTRY_AGE

\* faulty variant: a block that is over is cleared in the records that are kept
storeAfterCleanup_ClearsExpired(store, t, c) ==
  [ j \in { i \in DOMAIN store : ~isStale(store[i], t, c) } |->
      isBlocked(store[j], t).data ]

storeAfterCleanup(store, t, c) ==
  [ j \in { i \in DOMAIN store : ~isStale(store[i], t, c) } |-> store[j] ]

\* ------------------------------------------------------------ api/chat.js
RequestIds == {1, 2}

\* process.env: is GEMINI_API_KEY set, GEMINI_MODEL and GEMINI_API_VERSION
\* ("" when unset)
NoEnv == [ GEMINI_API_KEY |-> FALSE, GEMINI_MODEL |-> "", GEMINI_API_VERSION |-> "" ]

\* an invocation of handler(req, res).  req: method, client ip, and the class
\* of req.body.  res: status, the JSON error / source / reply, the
\* X-RateLimit-Remaining header (-1: not set).  pc: where the handler is
\* suspended.  The remaining fields record what the invocation did.
NoRequest ==
  [ pc |-> "idle", method |-> "-", ip |-> "-", body |-> "-",
    status |-> 0, error |-> "-", source |-> "-", reply |-> "-",
    remaining |-> -1, retryAfter |-> -1,
    checks |-> 0, allowed |-> FALSE, hitsBefore |-> 0, oldest |-> 0, swept |-> FALSE,
    work |-> {}, k |-> 0, models |-> << >>,
    gemini |-> "none", tried |-> 0, listed |-> FALSE ]

InFlight(req) == req.pc \notin {"idle", "done"}

\* ------------------------------------------------------------ ghost state
NoStreak == [ first |-> 0, n |-> 0, offsets |-> << >> ]
\* later: a Check of the same ip was made at or after until
NoViolation == [ at |-> 0, until |-> 0, swept |-> FALSE, later |-> FALSE ]
NoPrev == [ remaining |-> 0, oldestMinute |-> 0, oldestHour |-> 0 ]

\* idle: the previous Check of the same ip was made at least
\* max(HOUR_WINDOW, BLOCK_DURATION) before this one
NoCall ==
  [ ip |-> "-", at |-> 0, existed |-> FALSE, idle |-> FALSE,
    allowed |-> FALSE, remaining |-> 0, resetAt |-> 0, message |-> "null",
    solo |-> deniedResult(0, "null"),
    streak |-> NoStreak, viol |-> NoViolation, prev |-> NoPrev ]

Tracks(h) == h \in scope.track

\* a log of offsets is kept only while it follows one of the scripts
OnScript(offsets) ==
  \E script \in scope.scripts :
    /\ Len(offsets) <= Len(script)
    /\ SubSeq(script, 1, Len(offsets)) = offsets

\* the Checks counted since the record of ip was created, when no Sweep ran since
streakAfterCheck(ip) ==
  LET fresh   == ip \notin DOMAIN requestCounts
      first   == IF fresh THEN now ELSE streak[ip].first
      n       == IF fresh THEN 1 ELSE streak[ip].n + 1
      offsets == IF ~Tracks("offsets") THEN << >>
                 ELSE IF fresh THEN << 0 >>
                 ELSE Append(streak[ip].offsets, now - first)
  IN
  IF ~Tracks("streak") THEN NoStreak
  ELSE IF ~fresh /\ streak[ip].n = 0 THEN NoStreak
  ELSE IF Tracks("offsets") /\ ~OnScript(offsets) THEN NoStreak
  ELSE IF ~Tracks("offsets") /\ n > cfg.MAX_REQUESTS_PER_MINUTE + 2 THEN NoStreak
  ELSE [ first |-> first, n |-> n, offsets |-> offsets ]

\* ip has called Check before, and not for max(HOUR_WINDOW, BLOCK_DURATION)
idleBefore(ip) ==
  /\ last.ip = ip
  /\ now - last.at >= cfg.HOUR_WINDOW
  /\ now - last.at >= cfg.BLOCK_DURATION

IsViolation(result) ==
  result.message \in {"ShortWindowExceeded", "LongWindowExceeded"}

\* ------------------------------------------------------------------ Init
InitLimiter(config, sc) ==
  /\ cfg = config
  /\ scope = sc
  /\ now = sc.start
  /\ requestCounts = << >>
  /\ nextCleanup = sc.start + config.CLEANUP_INTERVAL
  /\ last = NoCall
  /\ streak = [ i \in IPs |-> NoStreak ]
  /\ violation = [ i \in IPs |-> NoViolation ]
  /\ prevAllowed = [ i \in IPs |-> NoPrev ]
  /\ grants = [ i \in IPs |-> << >> ]
  /\ alone = [ i \in IPs |-> << >> ]

\* the limiter alone: no chat request is ever made
InitWith(config, sc) ==
  /\ InitLimiter(config, sc)
  /\ env = NoEnv
  /\ requests = [ r \in RequestIds |-> NoRequest ]

EnvConfigs ==
  { RATE_LIMIT_CONFIG(perMinute, perHour, blockDuration) :
      perMinute \in PerMinuteChoices, perHour \in PerHourChoices,
      blockDuration \in BlockDurationChoices }

\* the instants explored: the first maxOffset seconds after the module is
\* loaded, and the second at which each duration in bases has elapsed and the
\* one after it
Instants(bases, maxOffset) ==
  { StartTime + d : d \in 0 .. maxOffset }
    \cup { StartTime + base + d : base \in bases, d \in 0 .. 1 }

Scope(clients, track, bases, maxOffset) ==
  [ clients |-> clients, track |-> track, start |-> StartTime,
    instants |-> Instants(bases, maxOffset), scripts |-> {} ]

AllDurations ==
  {MINUTE_WINDOW, MAX_ENTRY_AGE, DEFAULT_BLOCK_DURATION, HOUR_WINDOW}

\* one client, the per-identity histories recorded
Init ==
  \E config \in EnvConfigs :
    InitWith(config, Scope({"A"}, {"streak", "violation", "prev"}, AllDurations, MaxOffset))

\* --------------------------------------------------------------- actions
\* a request from ip reaches checkRateLimit at time now
checkRateLimit(ip) ==
  LET r    == checkEntry(getOrCreate(requestCounts, ip), now, cfg)
      solo == checkEntry(getOrCreate(alone[ip], ip), now, cfg)
      res  == r.result
  IN
  /\ ip \in scope.clients
  /\ requestCounts' = storeAfterCheck(requestCounts, ip, now, cfg)
  /\ alone' = [ alone EXCEPT ![ip] = storeAfterCheck(@, ip, now, cfg) ]
  /\ streak' = [ streak EXCEPT ![ip] = streakAfterCheck(ip) ]
  /\ violation' =
       IF Tracks("violation") /\ IsViolation(res)
         THEN [ violation EXCEPT
                  ![ip] = [ at |-> now, until |-> res.resetAt, swept |-> FALSE,
                            later |-> FALSE ] ]
         ELSE IF violation[ip].at # 0 /\ now >= violation[ip].until
           THEN [ violation EXCEPT ![ip].later = TRUE ]
         ELSE violation
  /\ prevAllowed' =
       IF Tracks("prev") /\ res.allowed
         THEN [ prevAllowed EXCEPT
                  ![ip] = [ remaining    |-> res.remaining,
                            oldestMinute |-> FirstOr(r.data.minuteTimestamps, 0),
                            oldestHour   |-> FirstOr(r.data.hourTimestamps, 0) ] ]
         ELSE prevAllowed
  /\ grants' =
       IF Tracks("grants") /\ res.allowed
         THEN [ grants EXCEPT ![ip] = Append(@, now) ]
         ELSE grants
  /\ last' = [ ip |-> ip, at |-> now, existed |-> ip \in DOMAIN requestCounts,
               idle |-> idleBefore(ip),
               allowed |-> res.allowed, remaining |-> res.remaining,
               resetAt |-> res.resetAt, message |-> res.message,
               solo |-> solo.result,
               streak |-> streakAfterCheck(ip), viol |-> violation[ip],
               prev |-> prevAllowed[ip] ]
  /\ UNCHANGED << cfg, scope, now, nextCleanup, env, requests >>

\* the setInterval callback: it runs no earlier than it is due and is then
\* rescheduled CLEANUP_INTERVAL later
cleanupOldEntries ==
  /\ now >= nextCleanup
  /\ requestCounts' = storeAfterCleanup(requestCounts, now, cfg)
  /\ alone' = [ i \in IPs |-> storeAfterCleanup(alone[i], now, cfg) ]
  /\ nextCleanup' = now + cfg.CLEANUP_INTERVAL
  /\ streak' = [ i \in IPs |-> NoStreak ]
  /\ violation' = [ i \in IPs |->
                      IF violation[i].at # 0
                        THEN [ violation[i] EXCEPT !.swept = TRUE ]
                        ELSE violation[i] ]
  /\ requests' = [ r \in RequestIds |->
                      IF InFlight(requests[r])
                        THEN [ requests[r] EXCEPT !.swept = TRUE ]
                        ELSE requests[r] ]
  /\ UNCHANGED << cfg, scope, now, last, prevAllowed, grants, env >>

\* time passes: the clock moves to the next instant explored
Tick ==
  \E t \in scope.instants :
    /\ t > now
    /\ \A u \in scope.instants : u > now => t <= u
    /\ now' = t
    /\ grants' = [ i \in IPs |->
                     SelectSeq(grants[i], LAMBDA g : t - g < cfg.HOUR_WINDOW) ]
    /\ UNCHANGED << cfg, scope, requestCounts, nextCleanup, last, streak,
                    violation, prevAllowed, alone, env, requests >>

Next ==
  \/ \E ip \in IPs : checkRateLimit(ip)
  \/ cleanupOldEntries
  \/ Tick

Spec == Init /\ [][Next]_vars

\* one client, the log of its Allowed decisions recorded
InitGrants ==
  \E config \in EnvConfigs : InitWith(config, Scope({"A"}, {"grants"}, {CLEANUP_INTERVAL}, MaxOffset))

SpecGrants == InitGrants /\ [][Next]_vars

\* two clients, no per-identity history
InitTwo ==
  \E config \in EnvConfigs : InitWith(config, Scope(IPs, {}, {MINUTE_WINDOW, DEFAULT_BLOCK_DURATION}, MaxOffsetTwo))

SpecTwo == InitTwo /\ [][Next]_vars

\* MAX_ENTRY_AGE raised to max(HOUR_WINDOW, BLOCK_DURATION), everything else
\* as in the source
StaleConfigs ==
  { [ config EXCEPT !.MAX_ENTRY_AGE =
        IF config.HOUR_WINDOW >= config.BLOCK_DURATION
          THEN config.HOUR_WINDOW ELSE config.BLOCK_DURATION ] :
      config \in EnvConfigs }

InitStale ==
  \E config \in StaleConfigs :
    InitWith(config, Scope({"A"}, {}, AllDurations, MaxOffset))

SpecStale == InitStale /\ [][Next]_vars

\* 2 requests per minute, the other limits at their defaults; the clock
\* visits the first seconds and the seconds around the end of a block
ScenarioInstants ==
  { StartTime + base + d : base \in {0, DEFAULT_BLOCK_DURATION}, d \in 0 .. MaxOffset + 2 }

InitScenario ==
  InitWith(RATE_LIMIT_CONFIG(2, DEFAULT_PER_HOUR, DEFAULT_BLOCK_DURATION),
           [ clients |-> {"A"}, track |-> {"streak", "offsets"},
             start |-> StartTime, instants |-> ScenarioInstants,
             scripts |-> { << 0, 1, 2, 3, 601 >>, << 0, 1, 2, 3, 602 >> } ])

SpecScenario == InitScenario /\ [][Next]_vars

\* one client; RATE_LIMIT_BLOCK_DURATION may also be set to 0, which parseInt
\* accepts
ZeroBlockConfigs ==
  { RATE_LIMIT_CONFIG(perMinute, perHour, blockDuration) :
      perMinute \in PerMinuteChoices, perHour \in PerHourChoices,
      blockDuration \in BlockDurationChoices \cup {0} }

InitZeroBlock ==
  \E config \in ZeroBlockConfigs :
    InitWith(config, Scope({"A"}, {}, {MINUTE_WINDOW, DEFAULT_BLOCK_DURATION}, MaxOffset))

SpecZeroBlock == InitZeroBlock /\ [][Next]_vars

\* one client that calls Check only before scope.quietFrom and then stays
\* silent, while the clock runs on through the cleanup interval, the entry
\* age and a whole block.  The clock always reaches the next instant (WF on
\* Tick) and the setInterval callback runs once it is due (WF on
\* cleanupOldEntries): the timer of line 61 is never cleared.
EvictionDurations == {CLEANUP_INTERVAL, MAX_ENTRY_AGE, DEFAULT_BLOCK_DURATION}

QuietChoices == { StartTime + d : d \in 1 .. MaxOffset } \cup {StartTime + CLEANUP_INTERVAL + 1}

InitEviction ==
  \E config \in EnvConfigs, q \in QuietChoices :
    InitWith(config,
             [ clients |-> {"A"}, track |-> {"violation"}, start |-> StartTime,
               instants |-> Instants(EvictionDurations, MaxOffset),
               scripts |-> {}, quietFrom |-> q ])

ActiveCheck(ip) == now < scope.quietFrom /\ checkRateLimit(ip)

NextEviction ==
  \/ \E ip \in IPs : ActiveCheck(ip)
  \/ cleanupOldEntries
  \/ Tick

SpecEviction ==
  InitEviction /\ [][NextEviction]_vars /\ WF_vars(Tick) /\ WF_vars(cleanupOldEntries)


\* ------------------------------------------------- api/chat.js: the handler
\* checkRateLimitForIP(ip): the store it leaves and the result it returns
checkRateLimitForIP(store, ip, t, c) ==
  [ store  |-> storeAfterCheck(store, ip, t, c),
    result |-> checkEntry(getOrCreate(store, ip), t, c).result ]

\* faulty variant: only OPTIONS returns before the rate limit check
reachesCheck_NotOptions(method) == method # "OPTIONS"

\* the handler returns before the rate limit check for OPTIONS and for every
\* method other than POST
reachesCheck(method) == method # "OPTIONS" /\ ~(method # "POST")

\* what the handler has answered, or where it is suspended
Answer(pc, status, error, source, work) ==
  [ pc |-> pc, status |-> status, error |-> error, source |-> source,
    retryAfter |-> -1, work |-> work ]

\* faulty variant: the body is validated before the rate limit result is looked at
handlerEntry_ValidatesFirst(method, body, limit, t) ==
  IF method = "OPTIONS" THEN Answer("done", 200, "-", "-", {})
  ELSE IF method # "POST"
    THEN Answer("done", 405, "Method not allowed. Use POST.", "-", {})
  ELSE IF body = "undefined"
    THEN Answer("done", 500, "An error occurred while processing your request.",
                "-", {"validate"})
  ELSE IF body \in {"empty", "tooLong"}
    THEN Answer("done", 400, "Invalid request.", "-", {"validate"})
  ELSE IF ~limit.allowed
    THEN [ Answer("done", 429, "Too Many Requests", "-", {"validate"})
             EXCEPT !.retryAfter = limit.resetAt - t ]
  ELSE IF body = "known"
    THEN Answer("done", 200, "-", "knowledge_base", {"validate", "searchKnowledgeBase"})
  ELSE Answer("searchCV", 0, "-", "-", {"validate", "searchKnowledgeBase", "searchCV"})

\* the handler from its entry to its first await (searchCV), given the result
\* of the rate limit check.  body is the class of req.body: "undefined" (no
\* body: the destructuring throws), "empty" (message missing, not a string or
\* blank), "tooLong", "known" (the knowledge base answers), "cv" (the CV
\* answers), "general" (a general question), "other" (none of these)
handlerEntry(method, body, limit, t) ==
  IF method = "OPTIONS" THEN Answer("done", 200, "-", "-", {})
  ELSE IF method # "POST"
    THEN Answer("done", 405, "Method not allowed. Use POST.", "-", {})
  ELSE IF ~limit.allowed
    THEN [ Answer("done", 429, "Too Many Requests", "-", {})
             EXCEPT !.retryAfter = limit.resetAt - t ]
  ELSE IF body = "undefined"
    THEN Answer("done", 500, "An error occurred while processing your request.",
                "-", {"validate"})
  ELSE IF body \in {"empty", "tooLong"}
    THEN Answer("done", 400, "Invalid request.", "-", {"validate"})
  ELSE IF body = "known"
    THEN Answer("done", 200, "-", "knowledge_base", {"validate", "searchKnowledgeBase"})
  ELSE Answer("searchCV", 0, "-", "-", {"validate", "searchKnowledgeBase", "searchCV"})

\* the handler after searchCV has returned
afterSearchCV(body, e) ==
  IF body = "cv" THEN Answer("done", 200, "-", "cv", {})
  ELSE IF body = "general" THEN Answer("done", 200, "-", "no_answer", {})
  ELSE IF ~e.GEMINI_API_KEY THEN Answer("done", 200, "-", "no_answer", {})
  ELSE Answer("loadCVText", 0, "-", "-", {})

\* ---------------------------------------------- api/chat.js: callGeminiAPI
PredefinedAttempts ==
  << [ model |-> "gemini-2.5-flash",       version |-> "v1beta" ],
     [ model |-> "gemini-2.5-flash-lite",  version |-> "v1beta" ],
     [ model |-> "gemini-3-flash-preview", version |-> "v1beta" ],
     [ model |-> "gemini-3-pro-preview",   version |-> "v1beta" ],
     [ model |-> "gemini-1.5-flash",       version |-> "v1beta" ],
     [ model |-> "gemini-1.5-pro",         version |-> "v1beta" ],
     [ model |-> "gemini-pro",             version |-> "v1beta" ],
     [ model |-> "gemini-2.5-flash",       version |-> "v1" ],
     [ model |-> "gemini-1.5-flash",       version |-> "v1" ] >>

\* attempts, after the unshift of the custom model
Attempts(e) ==
  IF e.GEMINI_MODEL # ""
    THEN << [ model   |-> e.GEMINI_MODEL,
              version |-> IF e.GEMINI_API_VERSION # ""
                            THEN e.GEMINI_API_VERSION ELSE "v1beta" ] >>
         \o PredefinedAttempts
    ELSE PredefinedAttempts

\* what tryGeminiAPICall can give: a text, an HTTP error status, a response
\* without a text (no status), or a rejected fetch
Success == [ success |-> TRUE, status |-> 0, rejects |-> FALSE ]
HttpError(status) == [ success |-> FALSE, status |-> status, rejects |-> FALSE ]
InvalidFormat == [ success |-> FALSE, status |-> 0, rejects |-> FALSE ]
FetchRejects == [ success |-> FALSE, status |-> 0, rejects |-> TRUE ]

\* the loop over attempts, after attempt k of n gave result
afterAttempt(result, k, n) ==
  IF result.rejects THEN "throw"
  ELSE IF result.success THEN "return"
  ELSE IF result.status # 0 /\ result.status # 404 THEN "throw"
  ELSE IF k < n THEN "next"
  ELSE "list"

\* the loop over the available models, after model k of n gave result
afterAvailable(result, k, n) ==
  IF result.rejects THEN "throw"
  ELSE IF result.success THEN "return"
  ELSE IF k < n THEN "next"
  ELSE "throw"

\* the handler after callGeminiAPI has returned text or thrown
afterCallGeminiAPI(outcome, text) ==
  IF outcome = "return"
    THEN Answer("done", 200, "-", "gemini_api", {})
    ELSE Answer("done", 200, "-", "no_answer", {})

\* ------------------------------------------------ api/chat.js: the actions
LimiterUnchanged ==
  UNCHANGED << cfg, scope, now, nextCleanup, last, streak, violation,
               prevAllowed, grants, alone, env >>

\* request r is answered, or suspended at pc, as a says
Answered(r, a) ==
  requests' = [ requests EXCEPT
                  ![r] = [ @ EXCEPT !.pc = a.pc, !.status = a.status,
                                    !.error = a.error, !.source = a.source,
                                    !.work = @ \cup a.work,
                                    !.hitsBefore = IF a.pc = "done" THEN 0 ELSE @,
                                    !.oldest = IF a.pc = "done" THEN 0 ELSE @,
                                    !.swept = IF a.pc = "done" THEN FALSE ELSE @ ] ]

\* a new invocation takes the first slot that holds no suspended handler
FreeSlot(r) ==
  /\ r \in scope.slots
  /\ ~InFlight(requests[r])
  /\ \A q \in scope.slots : q < r => InFlight(requests[q])

\* a request arrives and handler runs to its first await: the CORS and method
\* tests, the rate limit check with its headers, the 429 answer, the
\* validation of the body and the knowledge base search
handler(r) ==
  \E method \in scope.methods, ip \in scope.clients, body \in scope.bodies :
    LET checked == reachesCheck(method)
        limit   == checkRateLimitForIP(requestCounts, ip, now, cfg)
        found   == FilterWindow(getOrCreate(requestCounts, ip).minuteTimestamps,
                                now, cfg.MINUTE_WINDOW)
        a       == handlerEntry(method, body, limit.result, now)
    IN
    /\ FreeSlot(r)
    /\ requestCounts' = IF checked THEN limit.store ELSE requestCounts
    /\ requests' =
         [ requests EXCEPT
             ![r] = [ NoRequest EXCEPT
                        !.pc = a.pc, !.method = method, !.ip = ip, !.body = body,
                        !.status = a.status, !.error = a.error, !.source = a.source,
                        !.retryAfter = a.retryAfter, !.work = a.work,
                        !.remaining = IF checked THEN limit.result.remaining ELSE -1,
                        !.checks = IF checked THEN 1 ELSE 0,
                        !.allowed = checked /\ limit.result.allowed,
                        !.hitsBefore = IF a.pc # "done" THEN Len(found) ELSE 0,
                        !.oldest = IF a.pc # "done" THEN FirstOr(found, now) ELSE 0 ] ]
    /\ LimiterUnchanged

\* searchCV has returned: the CV answer, the general-question answer, the
\* missing API key
searchCV(r) ==
  /\ requests[r].pc = "searchCV"
  /\ Answered(r, afterSearchCV(requests[r].body, env))
  /\ UNCHANGED requestCounts
  /\ LimiterUnchanged

\* loadCVText has returned: callGeminiAPI starts its first attempt
loadCVText(r) ==
  /\ requests[r].pc = "loadCVText"
  /\ requests' = [ requests EXCEPT
                     ![r] = [ @ EXCEPT !.pc = "tryGeminiAPICall", !.k = 1,
                                       !.work = @ \cup {"callGeminiAPI"} ] ]
  /\ UNCHANGED requestCounts
  /\ LimiterUnchanged

\* callGeminiAPI has finished for request r: the handler answers
Finished(r, outcome, text, listed) ==
  LET a == afterCallGeminiAPI(outcome, text) IN
  requests' = [ requests EXCEPT
                  ![r] = [ @ EXCEPT !.pc = a.pc, !.status = a.status,
                                    !.error = a.error, !.source = a.source,
                                    !.reply = IF outcome = "return" THEN text ELSE "-",
                                    !.gemini = outcome,
                                    !.listed = listed,
                                    !.hitsBefore = 0, !.oldest = 0, !.swept = FALSE,
                                    !.tried = IF listed THEN @ ELSE requests[r].k,
                                    !.k = 0, !.models = << >> ] ]

\* attempt k of the predefined list has come back
tryGeminiAPICall(r) ==
  /\ requests[r].pc = "tryGeminiAPICall"
  /\ \E result \in scope.outcomes :
       LET k     == requests[r].k
           next  == afterAttempt(result, k, Len(Attempts(env)))
       IN
       CASE next = "next" ->
              requests' = [ requests EXCEPT ![r] = [ @ EXCEPT !.k = k + 1 ] ]
         [] next = "list" ->
              requests' = [ requests EXCEPT
                              ![r] = [ @ EXCEPT !.pc = "listAvailableModels",
                                                !.tried = k, !.k = 0 ] ]
         [] OTHER -> Finished(r, next, Attempts(env)[k].model, FALSE)
  /\ UNCHANGED requestCounts
  /\ LimiterUnchanged

\* listAvailableModels has returned (an empty list when the listing failed)
listAvailableModels(r) ==
  /\ requests[r].pc = "listAvailableModels"
  /\ \E models \in scope.available :
       IF models = << >>
         THEN Finished(r, "throw", "-", TRUE)
         ELSE requests' = [ requests EXCEPT
                              ![r] = [ @ EXCEPT !.listed = TRUE, !.models = models,
                                                !.pc = "tryAvailableModel", !.k = 1 ] ]
  /\ UNCHANGED requestCounts
  /\ LimiterUnchanged

\* available model k has come back
tryAvailableModel(r) ==
  /\ requests[r].pc = "tryAvailableModel"
  /\ \E result \in scope.outcomes :
       LET k    == requests[r].k
           next == afterAvailable(result, k, Len(requests[r].models))
       IN
       IF next = "next"
         THEN requests' = [ requests EXCEPT ![r] = [ @ EXCEPT !.k = k + 1 ] ]
         ELSE Finished(r, next, requests[r].models[k], TRUE)
  /\ UNCHANGED requestCounts
  /\ LimiterUnchanged

HandlerStep ==
  \E r \in RequestIds :
    \/ handler(r)
    \/ searchCV(r)
    \/ loadCVText(r)
    \/ tryGeminiAPICall(r)
    \/ listAvailableModels(r)
    \/ tryAvailableModel(r)

NextChat ==
  \/ HandlerStep
  \/ cleanupOldEntries
  \/ Tick

ChatEnvs ==
  { NoEnv,
    [ GEMINI_API_KEY |-> TRUE, GEMINI_MODEL |-> "", GEMINI_API_VERSION |-> "" ],
    [ GEMINI_API_KEY |-> TRUE, GEMINI_MODEL |-> "gemini-pro", GEMINI_API_VERSION |-> "v1" ] }

Methods == {"OPTIONS", "GET", "POST"}
Bodies == {"undefined", "empty", "tooLong", "known", "cv", "general", "other"}
Outcomes == { Success, HttpError(404), HttpError(503), InvalidFormat, FetchRejects }
AvailableLists == { << >>, << "gemini-2.0-flash" >>, << "gemini-2.0-flash", "gemma-3" >> }

\* concurrent requests of one client: every method, the bodies that are
\* rejected, answered at once or reach the Gemini step
InitChat ==
  /\ InitLimiter(RATE_LIMIT_CONFIG(2, DEFAULT_PER_HOUR, DEFAULT_BLOCK_DURATION),
                 [ clients |-> {"A"}, track |-> {}, start |-> StartTime,
                   instants |-> Instants({MINUTE_WINDOW}, MaxOffsetTwo), scripts |-> {},
                   slots |-> RequestIds,
                   methods |-> Methods, bodies |-> {"empty", "other"},
                   outcomes |-> { Success, HttpError(404) },
                   available |-> { << "gemini-2.0-flash" >> } ])
  /\ env = [ GEMINI_API_KEY |-> TRUE, GEMINI_MODEL |-> "", GEMINI_API_VERSION |-> "" ]
  /\ requests = [ r \in RequestIds |-> NoRequest ]

SpecChat == InitChat /\ [][NextChat]_vars

\* one POST at a time, every body, every environment and every outcome of
\* the Gemini calls
InitGemini ==
  /\ InitLimiter(RATE_LIMIT_CONFIG(2, DEFAULT_PER_HOUR, DEFAULT_BLOCK_DURATION),
                 [ clients |-> {"A"}, track |-> {}, start |-> StartTime,
                   instants |-> Instants({MINUTE_WINDOW}, MaxOffsetTwo), scripts |-> {},
                   slots |-> {1},
                   methods |-> {"POST"}, bodies |-> Bodies,
                   outcomes |-> Outcomes, available |-> AvailableLists ])
  /\ env \in ChatEnvs
  /\ requests = [ r \in RequestIds |-> NoRequest ]

SpecGemini == InitGemini /\ [][NextChat]_vars

\* =================================================================== claims
Called == last.ip # "-"

\* C1 (threshold exactness): for an identity whose record was just created,
\* with MAX_REQUESTS_PER_MINUTE = N >= 1 and MAX_REQUESTS_PER_HOUR >= N, in a
\* run of Checks with no Sweep between them, all made less than MINUTE_WINDOW
\* after the first, each of the first N is Allowed and the (N+1)-th is Denied
\* with the per-minute message.
C1_ThresholdExactness ==
  LET N == cfg.MAX_REQUESTS_PER_MINUTE IN
  ( /\ Called
    /\ last.streak.n > 0
    /\ N >= 1
    /\ cfg.MAX_REQUESTS_PER_HOUR >= N
    /\ last.at - last.streak.first < cfg.MINUTE_WINDOW )
  => /\ (last.streak.n <= N => last.allowed)
     /\ (last.streak.n = N + 1 =>
           ~last.allowed /\ last.message = "ShortWindowExceeded")

\* the (N+1)-th Check of such a run, made later than the first, with N = 2
C1_Witness ==
  /\ Called
  /\ cfg.MAX_REQUESTS_PER_MINUTE = 2
  /\ last.streak.n = 3
  /\ last.at > last.streak.first
  /\ last.at - last.streak.first < cfg.MINUTE_WINDOW
  /\ last.message = "ShortWindowExceeded"

\* C2 (block persistence): once a Check has blocked an identity until B, every
\* later Check on it made at a time now < B is Denied as already blocked, with
\* resetAt = B.
C2_BlockPersistence ==
  ( /\ Called
    /\ last.viol.at # 0
    /\ last.at < last.viol.until )
  => /\ last.message = "AlreadyBlocked"
     /\ last.resetAt = last.viol.until

\* the record holds a hit no older than age at time t
HasFreshHit(data, t, age) ==
  \/ \E k \in 1 .. Len(data.minuteTimestamps) : t - data.minuteTimestamps[k] <= age
  \/ \E k \in 1 .. Len(data.hourTimestamps) : t - data.hourTimestamps[k] <= age

Deleted(ip) == ip \in DOMAIN requestCounts /\ ip \notin DOMAIN requestCounts'

\* C3 (sweep safety): no step removes a record that holds a hit timestamp t
\* with now - t <= MAX_ENTRY_AGE, whatever its blockedUntil.
C3_SweepSafety ==
  [][ \A ip \in IPs :
        Deleted(ip) => ~HasFreshHit(requestCounts[ip], now, cfg.MAX_ENTRY_AGE) ]_vars

\* C7 (block length): a violation detected at time v blocks the identity until
\* exactly v + BLOCK_DURATION: with no Sweep since, a Check at time now answers
\* "already blocked" if and only if now < v + BLOCK_DURATION.
C7_BlockLength ==
  ( /\ Called
    /\ last.viol.at # 0
    /\ ~last.viol.swept )
  => /\ last.viol.until = last.viol.at + cfg.BLOCK_DURATION
     /\ (last.message = "AlreadyBlocked")
          <=> (last.at < last.viol.at + cfg.BLOCK_DURATION)
     /\ (last.message = "AlreadyBlocked" => last.resetAt = last.viol.until)

\* a Check made exactly BLOCK_DURATION after the violation, treated as unblocked
C7_Witness ==
  /\ Called
  /\ last.viol.at # 0
  /\ ~last.viol.swept
  /\ cfg.BLOCK_DURATION = DEFAULT_BLOCK_DURATION
  /\ last.at = last.viol.at + cfg.BLOCK_DURATION
  /\ last.message # "AlreadyBlocked"

\* C10 (monotone remaining): of two consecutive Allowed results of one
\* identity between which no hit left either window, the later one's
\* remaining is at most the earlier one's.
C10_MonotoneRemaining ==
  ( /\ Called
    /\ last.allowed
    /\ last.prev.oldestMinute # 0
    /\ last.at - last.prev.oldestMinute < cfg.MINUTE_WINDOW
    /\ last.at - last.prev.oldestHour < cfg.HOUR_WINDOW )
  => last.remaining <= last.prev.remaining

\* an identity's record stays in the store while one of its hits is inside its
\* window or its block is active
InsideWindow(data, t, c) ==
  \/ \E k \in 1 .. Len(data.minuteTimestamps) :
       t - data.minuteTimestamps[k] < c.MINUTE_WINDOW
  \/ \E k \in 1 .. Len(data.hourTimestamps) :
       t - data.hourTimestamps[k] < c.HOUR_WINDOW

BlockActive(data, t) == data.blockedUntil # NULL /\ t < data.blockedUntil

GrantsWithin(log, from, to) ==
  Cardinality({ k \in 1 .. Len(log) : from <= log[k] /\ log[k] <= to })

\* C5 (per-minute cap): the Allowed decisions given to one identity at times
\* inside any interval shorter than MINUTE_WINDOW never number more than
\* MAX_REQUESTS_PER_MINUTE.
C5_PerMinuteCap ==
  \A ip \in IPs : \A k \in 1 .. Len(grants[ip]) :
    GrantsWithin(grants[ip], grants[ip][k], grants[ip][k] + cfg.MINUTE_WINDOW - 1)
      <= cfg.MAX_REQUESTS_PER_MINUTE

\* C8 (per-hour cap): the Allowed decisions given to one identity at times
\* inside any interval shorter than HOUR_WINDOW never number more than
\* MAX_REQUESTS_PER_HOUR.
C8_PerHourCap ==
  \A ip \in IPs : \A k \in 1 .. Len(grants[ip]) :
    GrantsWithin(grants[ip], grants[ip][k], grants[ip][k] + cfg.HOUR_WINDOW - 1)
      <= cfg.MAX_REQUESTS_PER_HOUR

LastResult ==
  [ allowed |-> last.allowed, remaining |-> last.remaining,
    resetAt |-> last.resetAt, message |-> last.message ]

\* C9 (independence): every identity's record is the one it would have, and
\* every decision the one it would get, had no other identity ever called
\* Check.
C9_Independence ==
  /\ \A ip \in IPs :
       /\ ip \in DOMAIN requestCounts <=> ip \in DOMAIN alone[ip]
       /\ ip \in DOMAIN requestCounts => requestCounts[ip] = alone[ip][ip]
  /\ Called => LastResult = last.solo

\* B is Allowed on a record of its own while A has exhausted its window and is
\* blocked
C9_Witness ==
  /\ last.ip = "B"
  /\ last.allowed
  /\ last.existed
  /\ "A" \in DOMAIN requestCounts
  /\ BlockActive(requestCounts["A"], now)
  /\ Len(requestCounts["A"].minuteTimestamps) >= cfg.MAX_REQUESTS_PER_MINUTE

\* the scenario's Checks so far, as seconds after the first one
ScenarioTimes(offsets) ==
  /\ Called
  /\ cfg.MAX_REQUESTS_PER_MINUTE = 2
  /\ cfg.MINUTE_WINDOW = 60
  /\ cfg.BLOCK_DURATION = 600
  /\ last.streak.offsets = offsets

ScenarioHead ==
  /\ ScenarioTimes(<< 0 >>) => last.allowed /\ last.remaining = 1
  /\ ScenarioTimes(<< 0, 1 >>) => last.allowed /\ last.remaining = 0
  /\ ScenarioTimes(<< 0, 1, 2 >>) =>
       ~last.allowed /\ last.message = "ShortWindowExceeded"
  /\ ScenarioTimes(<< 0, 1, 2, 3 >>) =>
       ~last.allowed /\ last.message = "AlreadyBlocked"

\* C6 as stated: with 2 requests per minute, a 60 s window and a 600 s block,
\* Checks on A at t = 0, 1, 2, 3, 601 s return Allowed(1), Allowed(0),
\* Denied(per minute), Denied(already blocked), Allowed(1).
C6_ScenarioAsStated ==
  /\ ScenarioHead
  /\ ScenarioTimes(<< 0, 1, 2, 3, 601 >>) => last.allowed /\ last.remaining = 1

\* C6 amended: with no Sweep between the calls, Checks on A at t = 0, 1, 2, 3 s
\* return Allowed(1), Allowed(0), Denied(per minute), Denied(already blocked);
\* at t = 601 s the block set at t = 2 s, which lasts until t = 602 s, is
\* still active and the call is Denied(already blocked); made at t = 602 s
\* instead, the fifth call returns Allowed(1).
C6_Scenario ==
  /\ ScenarioHead
  /\ ScenarioTimes(<< 0, 1, 2, 3, 601 >>) =>
       /\ ~last.allowed
       /\ last.message = "AlreadyBlocked"
       /\ last.resetAt = last.streak.first + 602
  /\ ScenarioTimes(<< 0, 1, 2, 3, 602 >>) => last.allowed /\ last.remaining = 1

C6_Witness ==
  /\ ScenarioTimes(<< 0, 1, 2, 3, 602 >>)
  /\ last.allowed
  /\ last.remaining = 1

\* ---------------------------------------------------- one Check, before/after
\* how many timestamps of arr are less than window old at time t
CountWithin(arr, t, window) ==
  Cardinality({ k \in 1 .. Len(arr) : t - arr[k] < window })

Occurrences(arr, x) == Cardinality({ k \in 1 .. Len(arr) : arr[k] = x })

\* the record of ip as the Check finds it
RecordBefore(ip) ==
  IF ip \in DOMAIN requestCounts THEN requestCounts[ip] ELSE NewEntry

\* C11 (window eviction): a Check at time now that evaluates the windows counts
\* toward the per-minute total only the hits less than MINUTE_WINDOW old (a hit
\* recorded at t is not counted once now >= t + MINUTE_WINDOW), and counts
\* toward the per-hour total every hit of the record with
\* now - t < HOUR_WINDOW, which it keeps in the record.
C11_WindowEviction ==
  [][ \A ip \in IPs :
        ( checkRateLimit(ip) /\ last'.message # "AlreadyBlocked" ) =>
          LET old        == RecordBefore(ip)
              new        == requestCounts'[ip]
              shortTotal == CountWithin(old.minuteTimestamps, now, cfg.MINUTE_WINDOW)
              longTotal  == CountWithin(old.hourTimestamps, now, cfg.HOUR_WINDOW)
          IN
          /\ (last'.message = "ShortWindowExceeded")
               <=> (shortTotal >= cfg.MAX_REQUESTS_PER_MINUTE)
          /\ last'.allowed =>
               last'.remaining =
                 Min2(cfg.MAX_REQUESTS_PER_MINUTE - (shortTotal + 1),
                      cfg.MAX_REQUESTS_PER_HOUR - (longTotal + 1))
          /\ \A k \in 1 .. Len(old.hourTimestamps) :
               now - old.hourTimestamps[k] < cfg.HOUR_WINDOW =>
                 Occurrences(new.hourTimestamps, old.hourTimestamps[k])
                   >= Occurrences(old.hourTimestamps, old.hourTimestamps[k])
    ]_vars

\* a Check made exactly MINUTE_WINDOW after the identity used up its minute: it
\* is Allowed, and the old hits still fill the hour
C11_Witness ==
  /\ Called
  /\ last.at = now
  /\ last.existed
  /\ last.allowed
  /\ last.ip \in DOMAIN requestCounts
  /\ LET data == requestCounts[last.ip] IN
     /\ Len(data.minuteTimestamps) = 1
     /\ Len(data.hourTimestamps) = cfg.MAX_REQUESTS_PER_MINUTE + 1
     /\ data.hourTimestamps[1] + cfg.MINUTE_WINDOW = now

\* C16 (blocked Check is read-only): a Check answered "already blocked" leaves
\* the record of its identity exactly as it was (no timestamp pruned or
\* appended, blockedUntil not extended) and returns resetAt = the stored
\* blockedUntil.
C16_BlockedFrame ==
  [][ \A ip \in IPs :
        ( checkRateLimit(ip) /\ last'.message = "AlreadyBlocked" ) =>
          /\ ip \in DOMAIN requestCounts
          /\ requestCounts' = requestCounts
          /\ last'.resetAt = requestCounts[ip].blockedUntil
          /\ ~last'.allowed
    ]_vars

\* a blocked Check made after the record's hits have left the minute window:
\* they are still in the record, and the block ends when the violation set it
C16_Witness ==
  /\ Called
  /\ last.at = now
  /\ last.message = "AlreadyBlocked"
  /\ last.viol.at < now
  /\ ~last.viol.swept
  /\ last.ip \in DOMAIN requestCounts
  /\ LET data == requestCounts[last.ip] IN
     /\ data.blockedUntil = last.viol.at + cfg.BLOCK_DURATION
     /\ Len(data.minuteTimestamps) > 0
     /\ now - data.minuteTimestamps[1] >= cfg.MINUTE_WINDOW

\* C17 (violation): a Check that detects a threshold violation at time now
\* sets blockedUntil = now + BLOCK_DURATION, returns Denied with
\* resetAt = now + BLOCK_DURATION, and appends now to neither sequence.
C17_ViolationEffect ==
  [][ \A ip \in IPs :
        ( checkRateLimit(ip)
          /\ last'.message \in {"ShortWindowExceeded", "LongWindowExceeded"} ) =>
          LET old == RecordBefore(ip)
              new == requestCounts'[ip]
          IN
          /\ ~last'.allowed
          /\ new.blockedUntil = now + cfg.BLOCK_DURATION
          /\ last'.resetAt = now + cfg.BLOCK_DURATION
          /\ Occurrences(new.minuteTimestamps, now) = Occurrences(old.minuteTimestamps, now)
          /\ Occurrences(new.hourTimestamps, now) = Occurrences(old.hourTimestamps, now)
          /\ Len(new.minuteTimestamps) <= Len(old.minuteTimestamps)
          /\ Len(new.hourTimestamps) <= Len(old.hourTimestamps)
    ]_vars

\* a per-hour violation detected after the minute window has emptied
C17_Witness ==
  /\ Called
  /\ last.at = now
  /\ last.message = "LongWindowExceeded"
  /\ last.ip \in DOMAIN requestCounts
  /\ LET data == requestCounts[last.ip] IN
     /\ data.blockedUntil = now + cfg.BLOCK_DURATION
     /\ Len(data.hourTimestamps) = cfg.MAX_REQUESTS_PER_HOUR
     /\ Len(data.minuteTimestamps) < cfg.MAX_REQUESTS_PER_MINUTE

\* the identity is not blocked at time t: no block, or one that has expired
Unblocked(data, t) == data.blockedUntil = NULL \/ t >= data.blockedUntil

\* C18 (denial reason): for an unblocked identity, with the counts taken after
\* pruning, the Check is Denied for the minute limit whenever the minute count
\* is at the limit, also when the hour count is at its limit too, and Denied
\* for the hour limit exactly when the minute count is below its limit and the
\* hour count is at its limit.
C18_ReasonSelection ==
  [][ \A ip \in IPs :
        ( checkRateLimit(ip) /\ Unblocked(RecordBefore(ip), now) ) =>
          LET old       == RecordBefore(ip)
              short     == CountWithin(old.minuteTimestamps, now, cfg.MINUTE_WINDOW)
              long      == CountWithin(old.hourTimestamps, now, cfg.HOUR_WINDOW)
              shortFull == short >= cfg.MAX_REQUESTS_PER_MINUTE
              longFull  == long >= cfg.MAX_REQUESTS_PER_HOUR
          IN
          /\ shortFull => ( ~last'.allowed /\ last'.message = "ShortWindowExceeded" )
          /\ (~last'.allowed /\ last'.message = "LongWindowExceeded")
               <=> (~shortFull /\ longFull)
          /\ last'.message # "AlreadyBlocked"
    ]_vars

\* both limits reached at once: the minute limit is the one reported
C18_Witness ==
  /\ Called
  /\ last.at = now
  /\ last.message = "ShortWindowExceeded"
  /\ last.ip \in DOMAIN requestCounts
  /\ LET data == requestCounts[last.ip] IN
     /\ Len(data.minuteTimestamps) >= cfg.MAX_REQUESTS_PER_MINUTE
     /\ Len(data.hourTimestamps) >= cfg.MAX_REQUESTS_PER_HOUR

\* C19 (Allowed result): every Allowed decision appends now to both sequences
\* and reports remaining = min(per-minute limit - |minute hits|, per-hour
\* limit - |hour hits|) and resetAt = min(oldest minute hit + MINUTE_WINDOW,
\* oldest hour hit + HOUR_WINDOW), both on the sequences after the append.
C19_AllowedResult ==
  [][ \A ip \in IPs :
        ( checkRateLimit(ip) /\ last'.allowed ) =>
          LET old == RecordBefore(ip)
              new == requestCounts'[ip]
              m   == new.minuteTimestamps
              h   == new.hourTimestamps
          IN
          /\ Len(m) > 0 /\ m[Len(m)] = now
          /\ Len(h) > 0 /\ h[Len(h)] = now
          /\ Occurrences(m, now) = Occurrences(old.minuteTimestamps, now) + 1
          /\ Occurrences(h, now) = Occurrences(old.hourTimestamps, now) + 1
          /\ last'.remaining =
               Min2(cfg.MAX_REQUESTS_PER_MINUTE - Len(m),
                    cfg.MAX_REQUESTS_PER_HOUR - Len(h))
          /\ last'.resetAt = Min2(m[1] + cfg.MINUTE_WINDOW, h[1] + cfg.HOUR_WINDOW)
          /\ last'.message = "null"
    ]_vars

\* an Allowed decision whose remaining is set by the hour: the minute window
\* holds fewer hits than the hour window
C19_Witness ==
  /\ Called
  /\ last.at = now
  /\ last.allowed
  /\ last.ip \in DOMAIN requestCounts
  /\ LET data == requestCounts[last.ip] IN
     /\ Len(data.minuteTimestamps) < Len(data.hourTimestamps)
     /\ last.remaining = cfg.MAX_REQUESTS_PER_HOUR - Len(data.hourTimestamps)
     /\ last.remaining < cfg.MAX_REQUESTS_PER_MINUTE - Len(data.minuteTimestamps)
     /\ last.resetAt = data.minuteTimestamps[1] + cfg.MINUTE_WINDOW

AllWithin(arr, t, window) == \A k \in 1 .. Len(arr) : t - arr[k] < window

\* C20 (lazy pruning): on return from every Check at time now not answered
\* "already blocked", every timestamp left in minuteTimestamps is less than
\* MINUTE_WINDOW old and every one left in hourTimestamps less than HOUR_WINDOW
\* old; a blocked Check and every step that is not a Check leave the
\* timestamps of the records they keep as they were.
C20_LazyPruning ==
  [][ /\ \A ip \in IPs :
           ( checkRateLimit(ip) /\ last'.message # "AlreadyBlocked" ) =>
             /\ AllWithin(requestCounts'[ip].minuteTimestamps, now, cfg.MINUTE_WINDOW)
             /\ AllWithin(requestCounts'[ip].hourTimestamps, now, cfg.HOUR_WINDOW)
      /\ ( (~ \E ip \in IPs : checkRateLimit(ip)) \/ last'.message = "AlreadyBlocked" ) =>
           \A ip \in (DOMAIN requestCounts) \cap (DOMAIN requestCounts') :
             /\ requestCounts'[ip].minuteTimestamps = requestCounts[ip].minuteTimestamps
             /\ requestCounts'[ip].hourTimestamps = requestCounts[ip].hourTimestamps
    ]_vars

\* a Check made exactly HOUR_WINDOW after the only hit of a record that was
\* never swept: the hit has been dropped from both sequences
C20_Witness ==
  /\ Called
  /\ last.at = now
  /\ last.existed
  /\ last.allowed
  /\ last.prev.oldestHour # 0
  /\ now - last.prev.oldestHour = cfg.HOUR_WINDOW
  /\ last.ip \in DOMAIN requestCounts
  /\ requestCounts[last.ip].hourTimestamps = << now >>
  /\ requestCounts[last.ip].minuteTimestamps = << now >>

\* ------------------------------------------------------------ the handler
\* C12 (atomic Check): the Check of a handler is one step that no other
\* handler's step can split, so the timestamp it appends is seen by every
\* later Check: while a request that found MAX_REQUESTS_PER_MINUTE - 1 hits in
\* the minute window and was Allowed is still in flight, and those hits are
\* still inside the window (no Sweep having run since), a second request of
\* the same identity is not Allowed, however the handlers' steps interleave.
C12_AtomicCheck ==
  [][ \A r1, r2 \in RequestIds :
        ( /\ r1 # r2
          /\ handler(r2)
          /\ requests'[r2].method = "POST"
          /\ InFlight(requests[r1])
          /\ requests[r1].ip = requests'[r2].ip
          /\ requests[r1].hitsBefore = cfg.MAX_REQUESTS_PER_MINUTE - 1
          /\ ~requests[r1].swept
          /\ now - requests[r1].oldest < cfg.MINUTE_WINDOW )
        => /\ requests'[r2].checks = 1
           /\ ~requests'[r2].allowed
           /\ requests'[r2].status = 429
    ]_vars

\* two requests of one identity in flight at once: the first, which found one
\* hit, is suspended in its Gemini calls when the second is answered 429
C12_Witness ==
  \E r1, r2 \in RequestIds :
    /\ r1 # r2
    /\ requests[r1].pc = "tryGeminiAPICall"
    /\ requests[r1].k > 1
    /\ requests[r1].hitsBefore = cfg.MAX_REQUESTS_PER_MINUTE - 1
    /\ requests[r1].hitsBefore > 0
    /\ ~requests[r1].swept
    /\ requests[r2].pc = "done"
    /\ requests[r2].ip = requests[r1].ip
    /\ requests[r2].checks = 1
    /\ requests[r2].status = 429

\* C13 (denied before any work): every POST whose Check returns Denied is
\* answered with status 429, error "Too Many Requests" and
\* X-RateLimit-Remaining = 0, and neither the body validation, the knowledge
\* base search, the CV search nor the Gemini call runs for it.
C13_DeniedBeforeWork ==
  \A r \in RequestIds :
    ( /\ requests[r].method = "POST"
      /\ requests[r].checks = 1
      /\ ~requests[r].allowed )
    => /\ requests[r].pc = "done"
       /\ requests[r].status = 429
       /\ requests[r].error = "Too Many Requests"
       /\ requests[r].remaining = 0
       /\ requests[r].work = {}
       /\ requests[r].gemini = "none"

\* a denied POST whose body would not have passed validation
C13_Witness ==
  \E r \in RequestIds :
    /\ requests[r].method = "POST"
    /\ requests[r].body = "empty"
    /\ requests[r].checks = 1
    /\ ~requests[r].allowed
    /\ requests[r].status = 429
    /\ requests[r].retryAfter > 0

\* C14 (model fallback): when an attempt on a Gemini model fails,
\* callGeminiAPI goes on to the next model of its list, and after the last one
\* lists the available models and tries them, so it gives up only after every
\* model of the list was tried and the models were listed; when an attempt
\* succeeds it returns that attempt's text.
C14_ModelFallback ==
  \A r \in RequestIds :
    /\ requests[r].gemini = "throw" =>
         /\ requests[r].tried = Len(Attempts(env))
         /\ requests[r].listed
    /\ requests[r].gemini = "return" =>
         /\ requests[r].source = "gemini_api"
         /\ requests[r].reply # "-"
         /\ ~requests[r].listed => requests[r].reply = Attempts(env)[requests[r].tried].model

\* the request passed the rate limit, the validation, the knowledge base and
\* the CV, and is not a general question: it reached the Gemini step
ReachedGeminiStep(req) ==
  /\ req.pc = "done"
  /\ req.method = "POST"
  /\ req.allowed
  /\ req.body = "other"

\* C15 (status 500): a POST that reaches the Gemini step is answered with
\* status 500 when GEMINI_API_KEY is missing and when the Gemini call fails.
C15_GeminiErrorStatus ==
  \A r \in RequestIds :
    ( /\ ReachedGeminiStep(requests[r])
      /\ (~env.GEMINI_API_KEY \/ requests[r].gemini = "throw") )
    => requests[r].status = 500

\* C21 (blockedUntil lies in the future): with BLOCK_DURATION > 0, a Check at
\* time now that sets blockedUntil sets it later than now; when a Check
\* returns, the blockedUntil of its record is null or later than now; and a
\* blockedUntil that is over (now >= blockedUntil) is cleared by the Check,
\* which then evaluates the windows instead of answering AlreadyBlocked.
C21_BlockedUntilInFuture ==
  [][ \A ip \in IPs :
        ( checkRateLimit(ip) /\ cfg.BLOCK_DURATION > 0 ) =>
          LET old == RecordBefore(ip)
              new == requestCounts'[ip]
          IN
          /\ new.blockedUntil = NULL \/ new.blockedUntil > now
          /\ new.blockedUntil # old.blockedUntil =>
               \/ new.blockedUntil = NULL
               \/ IsViolation(last') /\ new.blockedUntil > now
          /\ ( old.blockedUntil # NULL /\ now >= old.blockedUntil ) =>
               /\ last'.message # "AlreadyBlocked"
               /\ ~IsViolation(last') => new.blockedUntil = NULL
    ]_vars

\* a record kept since its violation is checked for the first time after the
\* block is over: the request is allowed and blockedUntil is null again
C21_Witness ==
  /\ Called
  /\ last.at = now
  /\ last.existed
  /\ last.viol.at # 0 /\ ~last.viol.swept /\ ~last.viol.later
  /\ now >= last.viol.until
  /\ last.allowed
  /\ last.ip \in DOMAIN requestCounts
  /\ requestCounts[last.ip].blockedUntil = NULL

\* C22 (Sweep only deletes, Check creates): a run of cleanupOldEntries adds
\* no record and leaves every record it keeps as it was; a record appears
\* only through a Check of its identity, which was absent; every Check,
\* allowed or denied, leaves a record for its identity; and a Check adds at
\* most that one record, none when the identity already has one.
C22_SweepOnlyDeletes ==
  [][ /\ cleanupOldEntries =>
           /\ DOMAIN requestCounts' \subseteq DOMAIN requestCounts
           /\ \A j \in DOMAIN requestCounts' : requestCounts'[j] = requestCounts[j]
      /\ \A ip \in IPs :
           /\ ( ip \in DOMAIN requestCounts' /\ ip \notin DOMAIN requestCounts ) =>
                checkRateLimit(ip)
           /\ checkRateLimit(ip) =>
                /\ ip \in DOMAIN requestCounts'
                /\ DOMAIN requestCounts' = DOMAIN requestCounts \cup {ip}
                /\ \A j \in DOMAIN requestCounts :
                     j # ip => requestCounts'[j] = requestCounts[j]
    ]_vars

\* cleanupOldEntries has just run and kept the record of a violation, with
\* its blockedUntil as the violation set it
C22_Witness ==
  /\ nextCleanup = now + cfg.CLEANUP_INTERVAL
  /\ \E ip \in DOMAIN requestCounts :
       /\ violation[ip].at # 0
       /\ violation[ip].swept
       /\ ~violation[ip].later
       /\ requestCounts[ip].blockedUntil = violation[ip].until
       /\ now >= violation[ip].until

\* C23 (fresh start after Sweep): a Check of an identity that has no record,
\* whether it was never seen or its record was deleted by cleanupOldEntries,
\* is Allowed with remaining = min(per-minute limit, per-hour limit) - 1 and
\* resetAt = now + MINUTE_WINDOW, and leaves the record of a first request:
\* now as the only hit of both windows and no block.
C23_FreshAfterSweep ==
  [][ \A ip \in IPs :
        ( checkRateLimit(ip) /\ ip \notin DOMAIN requestCounts ) =>
          /\ last'.allowed
          /\ last'.remaining =
               Min2(cfg.MAX_REQUESTS_PER_MINUTE, cfg.MAX_REQUESTS_PER_HOUR) - 1
          /\ last'.resetAt = now + Min2(cfg.MINUTE_WINDOW, cfg.HOUR_WINDOW)
          /\ requestCounts'[ip] =
               [ minuteTimestamps |-> << now >>, hourTimestamps |-> << now >>,
                 blockedUntil |-> NULL ]
    ]_vars

\* the identity was blocked, cleanupOldEntries deleted its record, and its
\* next Check, made while the block would still hold, starts afresh
C23_Witness ==
  /\ Called
  /\ last.at = now
  /\ ~last.existed
  /\ last.viol.at # 0 /\ last.viol.swept
  /\ now < last.viol.until
  /\ last.allowed
  /\ last.remaining = Min2(cfg.MAX_REQUESTS_PER_MINUTE, cfg.MAX_REQUESTS_PER_HOUR) - 1
  /\ requestCounts[last.ip].hourTimestamps = << now >>

\* C24 (eventual eviction): when an identity has stopped calling Check, the
\* clock keeps advancing and cleanupOldEntries keeps running, the record of
\* the identity is eventually deleted, whether it is blocked, holds a block
\* that is over, or was never blocked.
C24_EventualEviction ==
  \A ip \in IPs : ( ip \in DOMAIN requestCounts ) ~> ( ip \notin DOMAIN requestCounts )

\* the identity is silent and its record, blocked when it fell silent, has
\* been deleted
C24_Witness ==
  /\ now >= scope.quietFrom
  /\ requestCounts = << >>
  /\ \E ip \in scope.clients :
       /\ violation[ip].at # 0
       /\ violation[ip].swept
       /\ violation[ip].until > scope.quietFrom

\* C25 (hits never exceed the limits): in every reachable state every record
\* holds at most MAX_REQUESTS_PER_MINUTE minute timestamps and at most
\* MAX_REQUESTS_PER_HOUR hour timestamps.
C25_HitsWithinCaps ==
  \A ip \in DOMAIN requestCounts :
    /\ Len(requestCounts[ip].minuteTimestamps) <= cfg.MAX_REQUESTS_PER_MINUTE
    /\ Len(requestCounts[ip].hourTimestamps) <= cfg.MAX_REQUESTS_PER_HOUR

\* a record full in the hour window, filled over more than one minute
C25_Witness ==
  \E ip \in DOMAIN requestCounts :
    LET data == requestCounts[ip] IN
    /\ Len(data.hourTimestamps) = cfg.MAX_REQUESTS_PER_HOUR
    /\ Len(data.minuteTimestamps) < Len(data.hourTimestamps)
    /\ Len(data.minuteTimestamps) >= 1
    /\ data.blockedUntil # NULL

IsSortedAscending(arr) ==
  \A i \in 1 .. Len(arr) : \A j \in 1 .. Len(arr) : i < j => arr[i] <= arr[j]

IsSuffix(short, long) ==
  /\ Len(short) <= Len(long)
  /\ \A i \in 1 .. Len(short) : short[i] = long[Len(long) - Len(short) + i]

\* C26 (sorted hits, minute hits a suffix of the hour hits): in every
\* reachable state both timestamp arrays of every record are in ascending
\* order and minuteTimestamps is a suffix of hourTimestamps, so the oldest
\* hour timestamp is not newer than the oldest minute timestamp.
C26_SortedSuffix ==
  \A ip \in DOMAIN requestCounts :
    LET m == requestCounts[ip].minuteTimestamps
        h == requestCounts[ip].hourTimestamps
    IN
    /\ IsSortedAscending(m)
    /\ IsSortedAscending(h)
    /\ IsSuffix(m, h)
    /\ Len(m) > 0 => h[1] <= m[1]

\* hits of two different minutes: the hour array holds both, the minute array
\* only the newer ones
C26_Witness ==
  \E ip \in DOMAIN requestCounts :
    LET m == requestCounts[ip].minuteTimestamps
        h == requestCounts[ip].hourTimestamps
    IN
    /\ Len(m) >= 1
    /\ Len(h) > Len(m)
    /\ h[1] < m[1]
    /\ h[Len(h)] = now
    /\ now > cfg.MINUTE_WINDOW + h[1]

\* C27 (no minute violation right after a block): with BLOCK_DURATION >=
\* MINUTE_WINDOW and a per-minute limit >= 1, the first Check of an identity
\* made at or after the blockedUntil of its latest violation is not answered
\* with the per-minute violation.
C27_NoShortAfterExpiry ==
  ( /\ Called
    /\ cfg.BLOCK_DURATION >= cfg.MINUTE_WINDOW
    /\ cfg.MAX_REQUESTS_PER_MINUTE >= 1
    /\ last.viol.at # 0
    /\ ~last.viol.later
    /\ last.at >= last.viol.until )
  => last.message # "ShortWindowExceeded"

\* C28 (recovery): a Check of an identity whose previous Check was made at
\* least max(HOUR_WINDOW, BLOCK_DURATION) earlier is Allowed with remaining =
\* min(per-minute limit, per-hour limit) - 1, whatever Checks and sweeps came
\* before.
C28_Recovery ==
  ( Called /\ last.idle ) =>
    /\ last.allowed
    /\ last.remaining =
         Min2(cfg.MAX_REQUESTS_PER_MINUTE, cfg.MAX_REQUESTS_PER_HOUR) - 1

\* the record of a blocked identity was kept, and its first Check in more
\* than an hour finds the block over and both windows empty
C28_Witness ==
  /\ Called
  /\ last.idle
  /\ last.at = now
  /\ last.existed
  /\ last.viol.at # 0 /\ ~last.viol.swept /\ ~last.viol.later
  /\ cfg.BLOCK_DURATION = DEFAULT_BLOCK_DURATION
  /\ last.allowed
  /\ requestCounts[last.ip].hourTimestamps = << now >>

\* C29 (which requests consume quota): an OPTIONS request and a request of
\* any method other than POST are answered without a call of checkRateLimit
\* and leave the store as it was; every POST calls checkRateLimit exactly
\* once, when the handler starts and before the body is validated, so a POST
\* answered 400 has recorded a hit for its ip; the later steps of a request
\* do not touch the store.
C29_QuotaConsumers ==
  [][ \A r \in RequestIds :
        /\ handler(r) =>
             LET req == requests'[r]
                 old == RecordBefore(req.ip)
             IN
             /\ req.method # "POST" =>
                  /\ req.checks = 0
                  /\ requestCounts' = requestCounts
                  /\ req.status \in {200, 405}
             /\ req.method = "POST" =>
                  /\ req.checks = 1
                  /\ req.ip \in DOMAIN requestCounts'
             /\ ( req.method = "POST" /\ req.status = 400 ) =>
                  /\ Occurrences(requestCounts'[req.ip].minuteTimestamps, now)
                       = Occurrences(old.minuteTimestamps, now) + 1
                  /\ Occurrences(requestCounts'[req.ip].hourTimestamps, now)
                       = Occurrences(old.hourTimestamps, now) + 1
        /\ ( InFlight(requests[r]) /\ ~cleanupOldEntries /\ requests'[r] # requests[r] ) =>
             /\ requestCounts' = requestCounts
             /\ requests'[r].checks = requests[r].checks
    ]_vars

\* the only request made so far is a POST with an empty message: it was
\* answered 400 and its ip has one hit
C29_Witness ==
  \E r \in RequestIds :
    /\ requests[r].method = "POST"
    /\ requests[r].body = "empty"
    /\ requests[r].status = 400
    /\ requests[r].checks = 1
    /\ \A q \in RequestIds \ {r} : requests[q].pc = "idle"
    /\ requests[r].ip \in DOMAIN requestCounts
    /\ requestCounts[requests[r].ip].minuteTimestamps = << now >>

====
